---------------------------- MODULE Spec2Model ----------------------------
(***************************************************************************)
(* Model of examples/Hyperopt_LightGBM_with_Focal_Loss.ipynb:              *)
(*   - the F1 evaluation metric  lgb_focal_f1_score        (lines 56-70)   *)
(*   - the focal loss objective  focal_loss_lgb            (lines 34-54)   *)
(*   - the trial runner          objective                 (lines 86-119)  *)
(*   - the search run            fmin cell                 (lines 475-482) *)
(*   - the retraining cell                                 (lines 509-513) *)
(*                                                                         *)
(* Numbers.  A configuration value is a record [kind, tenths]: kind is the *)
(* Python type ("float" or "int") and tenths the value times ten, so that  *)
(* int() is a truncation and not the identity.  A mean F1 is an integer    *)
(* count of 1e-5, a score returned to the search a count of 1e-4.  The     *)
(* metric adapter's float arithmetic is fixed point with unit One.         *)
(*                                                                         *)
(* Libraries.  lgb.cv, hyperopt.fmin and sklearn's f1_score are called,    *)
(* not defined, by the notebook; each is modelled at its call site by the  *)
(* behaviour of the library the notebook imports.                          *)
(***************************************************************************)
EXTENDS Integers, Sequences, FiniteSets

VARIABLES
    pc,               \* position of the notebook: search, trial, done, retrained, failed
    max_evals,        \* fmin's trial budget
    objective_i,      \* objective.i, the trial counter
    early_stop_dict,  \* early_stop_dict: key -> realized round count
    trials,           \* Trials(): the append-only trial history
    proposal,         \* <<>> or <<p>>: the configuration being evaluated and the
                      \* per-round mean F1 the engine yields for it
    cv_run,           \* <<>> or <<r>>: what the last lgb.cv run did
    best,             \* <<>> or <<b>>: the dict returned by fmin, as later edited
    engine_call,      \* <<>> or <<c>>: the last invocation of the boosting engine
    fn_in,            \* <<>> or <<a>>: arguments of a pure function under test
    fn_out            \* <<>> or <<r>>: its result

vars == <<pc, max_evals, objective_i, early_stop_dict, trials, proposal, cv_run,
          best, engine_call, fn_in, fn_out>>

searchVars == <<pc, max_evals, objective_i, early_stop_dict, trials, proposal,
                cv_run, best, engine_call>>

-----------------------------------------------------------------------------
(* Bounds of the model *)

\* fmin is run with max_evals in 1..MaxEvals (the notebook's run uses 5)
MaxEvals == 2

\* a trajectory of mean F1 is free for its first MaxFree rounds, then constant
MaxFree == 2

\* a batch handed to the metric or to the objective has 1..MaxBatch samples
MaxBatch == 2

\* mean F1 values (units of 1e-5) the engine may report for a round
F1Values == {70662, 70665, 70668}

-----------------------------------------------------------------------------
(* Configuration values *)

Float(t) == [kind |-> "float", tenths |-> t]

\* Python's int(x) for x >= 0: the type becomes int, the fraction is dropped
IntCoerceKeepsFloat(v) == v

IntCoerce(v) == [kind |-> "int", tenths |-> (v.tenths \div 10) * 10]

\* an int object n, e.g. the result of len()
IntObj(n) == [kind |-> "int", tenths |-> n * 10]

AsInt(v) == v.tenths \div 10

\* space['num_boost_round'], space['num_leaves']: hp.quniform yields floats.
\* 0.5 is the pathological budget that leaves no round to run.
NumBoostRoundSpace == {Float(5), Float(37), Float(227)}

NumLeavesSpace == {Float(355)}

space == [num_boost_round : NumBoostRoundSpace, num_leaves : NumLeavesSpace]

-----------------------------------------------------------------------------
(* The boosting engine's cross-validation, lgb.cv(..., early_stopping_rounds) *)

early_stopping_rounds == 20

Prefixes == UNION {[1..l -> F1Values] : l \in 1..MaxFree}

Pad(prefix, tailv, n) ==
    [k \in 1..n |-> IF k <= Len(prefix) THEN prefix[k] ELSE tailv]

\* the per-round fold-averaged F1 the engine may yield over n rounds
Trajectories(n) == {Pad(p, t, n) : p \in Prefixes, t \in F1Values}

\* lgb.cv's loop with the early_stopping callback.  Round i (from 0) appends
\* the fold mean to the history; the callback keeps the first best round and
\* raises EarlyStopException when the round is no improvement and
\* i - best_iter >= early_stopping_rounds ("early"), or when i is the last
\* round of the budget ("final"); lgb.cv then cuts every history to
\* best_iter + 1 entries.  Without a round the history has no 'f1-mean' key.
RECURSIVE CvLoop(_, _, _, _, _, _)
CvLoop(traj, n, i, best_score, best_iter, results) ==
    IF i >= n
    THEN [present |-> results # <<>>, f1_mean |-> results,
          completed |-> i, stopped |-> "exhausted"]
    ELSE LET score == traj[i + 1]
             res == Append(results, score)
             improved == best_iter < 0 \/ score > best_score
             bs == IF improved THEN score ELSE best_score
             bi == IF improved THEN i ELSE best_iter
         IN  IF ~improved /\ i - best_iter >= early_stopping_rounds
             THEN [present |-> TRUE, f1_mean |-> SubSeq(res, 1, bi + 1),
                   completed |-> i + 1, stopped |-> "early"]
             ELSE IF i = n - 1
             THEN [present |-> TRUE, f1_mean |-> SubSeq(res, 1, bi + 1),
                   completed |-> i + 1, stopped |-> "final"]
             ELSE CvLoop(traj, n, i + 1, bs, bi, res)

\* lgb.cv(params, train, num_boost_round=..., nfold=3, early_stopping_rounds=20):
\* the engine takes the round budget found in params
lgb_cv(params, traj) == CvLoop(traj, AsInt(params.num_boost_round), 0, 0, -1, <<>>)

-----------------------------------------------------------------------------
(* The trial runner, objective(params) *)

\* round(x, 4) of a mean F1 (units of 1e-5), in units of 1e-4, half to even
Round4(v) ==
    LET q == v \div 10
        r == v % 10
    IN  IF r < 5 THEN q
        ELSE IF r > 5 THEN q + 1
        ELSE IF q % 2 = 0 THEN q ELSE q + 1

\* line 116: the key is objective.i as it stands when the trial records
RecordKeyAfterIncrement(i) == i + 1

RecordKey(i) == i

\* line 116: len(cv_result['f1-mean'])
RealizedRoundsOffByOne(params, cv_result) == Len(cv_result.f1_mean) + 1

RealizedRoundsRequested(params, cv_result) == AsInt(params.num_boost_round)

RealizedRounds(params, cv_result) == Len(cv_result.f1_mean)

\* line 117: round(cv_result['f1-mean'][-1], 4)
ScoreOfFirstRound(cv_result) == Round4(cv_result.f1_mean[1])

Score(cv_result) == Round4(cv_result.f1_mean[Len(cv_result.f1_mean)])

\* line 118: objective.i += 1
NextCounterStuck(i) == i

NextCounter(i) == i + 1

\* lines 91-96: the parameters handed to the engine
EngineParams(params) ==
    [num_boost_round |-> IntCoerce(params.num_boost_round),
     num_leaves |-> IntCoerce(params.num_leaves),
     verbose |-> -1, seed |-> 1]

Put(dict, key, value) ==
    [k \in DOMAIN dict \cup {key} |-> IF k = key THEN value ELSE dict[k]]

\* objective(params) run on counter i and mapping dict, the engine yielding
\* traj.  raised: an exception left the function (KeyError at line 116 when
\* the history has no 'f1-mean', IndexError at line 117 when it is empty);
\* the writes made before the exception stay.
objective(params, traj, i, dict) ==
    LET p == EngineParams(params)
        cv_result == lgb_cv(p, traj)
        call == [fn |-> "cv", params |-> p, num_boost_round |-> p.num_boost_round]
        key == RecordKey(i)
        count == RealizedRounds(p, cv_result)
    IN  IF ~cv_result.present
        THEN [raised |-> TRUE, ret |-> 0, i |-> i, dict |-> dict,
              key |-> -1, count |-> -1, call |-> call, cv_result |-> cv_result]
        ELSE IF Len(cv_result.f1_mean) = 0
        THEN [raised |-> TRUE, ret |-> 0, i |-> i, dict |-> Put(dict, key, count),
              key |-> key, count |-> count, call |-> call, cv_result |-> cv_result]
        ELSE [raised |-> FALSE, ret |-> 0 - Score(cv_result),
              i |-> NextCounter(i), dict |-> Put(dict, key, count),
              key |-> key, count |-> count, call |-> call, cv_result |-> cv_result]

-----------------------------------------------------------------------------
(* The search run: objective.i = 0; trials = Trials(); early_stop_dict = {}; *)
(* best = fmin(fn=objective, space=space, algo=tpe.suggest, max_evals=...)   *)

EmptyDict == [k \in {} |-> 0]

MaxOf(S) == CHOOSE m \in S : \A x \in S : x <= m

\* the best mean F1 among the rounds a run completed
BestMeanF1(traj, completed) == MaxOf({traj[k] : k \in 1..completed})

\* trials.best_trial: the first trial of the history with the least loss
BestTrial(ts) ==
    ts[CHOOSE k \in 1..Len(ts) :
          /\ \A j \in 1..Len(ts) : ts[k].loss <= ts[j].loss
          /\ \A j \in 1..(k - 1) : ts[j].loss > ts[k].loss]

Init ==
    /\ pc = "search"
    /\ max_evals \in 1..MaxEvals
    /\ objective_i = 0
    /\ early_stop_dict = EmptyDict
    /\ trials = <<>>
    /\ proposal = <<>>
    /\ cv_run = <<>>
    /\ best = <<>>
    /\ engine_call = <<>>
    /\ fn_in = <<>>
    /\ fn_out = <<>>

\* fmin: the strategy proposes the next configuration; its trial identity is
\* the number of trials issued so far
Suggest ==
    /\ pc = "search"
    /\ Len(trials) < max_evals
    /\ \E vals \in space :
         \E traj \in Trajectories(AsInt(vals.num_boost_round)) :
           proposal' = <<[tid |-> Len(trials), vals |-> vals, traj |-> traj]>>
    /\ pc' = "trial"
    /\ cv_run' = <<>>
    /\ UNCHANGED <<max_evals, objective_i, early_stop_dict, trials, best,
                   engine_call, fn_in, fn_out>>

\* fmin evaluates the proposal: objective(params).  An exception of the
\* objective leaves fmin (catch_eval_exceptions is off) and ends the run.
Objective ==
    /\ pc = "trial"
    /\ LET prop == proposal[1]
           out == objective(prop.vals, prop.traj, objective_i, early_stop_dict)
       IN  /\ objective_i' = out.i
           /\ early_stop_dict' = out.dict
           /\ engine_call' = <<out.call>>
           /\ cv_run' = <<[completed |-> out.cv_result.completed,
                           stopped |-> out.cv_result.stopped,
                           last |-> IF out.cv_result.f1_mean = <<>> THEN -1
                                    ELSE out.cv_result.f1_mean[Len(out.cv_result.f1_mean)],
                           raised |-> out.raised,
                           ret |-> out.ret]>>
           /\ pc' = IF out.raised THEN "failed" ELSE "search"
           /\ trials' = IF out.raised THEN trials
                        ELSE Append(trials,
                               [tid |-> prop.tid, loss |-> out.ret, vals |-> prop.vals,
                                key |-> out.key, count |-> out.count,
                                best_f1 |-> BestMeanF1(prop.traj, out.cv_result.completed)])
    /\ UNCHANGED <<max_evals, proposal, best, fn_in, fn_out>>

\* fmin returns trials.argmin: the values the strategy drew for the best trial
FminReturn ==
    /\ pc = "search"
    /\ Len(trials) = max_evals
    /\ best' = <<BestTrial(trials).vals>>
    /\ pc' = "done"
    /\ UNCHANGED <<max_evals, objective_i, early_stop_dict, trials, proposal, cv_run,
                   engine_call, fn_in, fn_out>>

\* lines 509-513: best['num_boost_round'] = early_stop_dict[trials.best_trial['tid']]
\* (KeyError when the key is missing); best['num_leaves'] = int(best['num_leaves']);
\* best['verbose'] = -1; model = lgb.train(best, train, fobj=focal_loss)
Retrain ==
    /\ pc = "done"
    /\ LET tid == BestTrial(trials).tid
       IN  IF tid \notin DOMAIN early_stop_dict
           THEN /\ pc' = "failed"
                /\ UNCHANGED <<best, engine_call>>
           ELSE LET b == [num_boost_round |-> IntObj(early_stop_dict[tid]),
                          num_leaves |-> IntCoerce(best[1].num_leaves),
                          verbose |-> -1]
                IN  /\ best' = <<b>>
                    /\ engine_call' = <<[fn |-> "train", params |-> b,
                                         num_boost_round |-> b.num_boost_round]>>
                    /\ pc' = "retrained"
    /\ UNCHANGED <<max_evals, objective_i, early_stop_dict, trials, proposal, cv_run,
                   fn_in, fn_out>>

Next == Suggest \/ Objective \/ FminReturn \/ Retrain

Spec == Init /\ [][Next]_vars

-----------------------------------------------------------------------------
(* Properties of the search run *)

\* a trial has just returned its score: proposal and cv_run describe it
TrialDone == cv_run # <<>> /\ ~cv_run[1].raised

LastTrial == trials[Len(trials)]

\* the count the last trial left in the Search State
Recorded == early_stop_dict[LastTrial.key]

\* the round budget the last trial asked of the engine, after int()
Requested == AsInt(IntCoerce(proposal[1].vals.num_boost_round))

StrictlyImproving(traj, n) == \A k \in 1..(n - 1) : traj[k] < traj[k + 1]

\* the first round attaining the best mean F1 among the completed ones
FirstBestRound(traj, completed) ==
    CHOOSE k \in 1..completed :
        /\ traj[k] = BestMeanF1(traj, completed)
        /\ \A j \in 1..(k - 1) : traj[j] < traj[k]

\* C1: every trial records its count under its own trial identity, and after
\* the run the num_boost_round of the best configuration is the count the
\* best-scoring trial itself recorded.
C1_BestRoundsOwnCount ==
    /\ \A k \in 1..Len(trials) : trials[k].key = trials[k].tid
    /\ pc = "retrained" =>
         best[1].num_boost_round = IntObj(BestTrial(trials).count)

C1_Witness ==
    /\ pc = "retrained"
    /\ Len(trials) = 2
    /\ BestTrial(trials).tid = 1
    /\ trials[1].count # trials[2].count
    /\ best[1].num_boost_round = IntObj(trials[2].count)

\* C2: after a completed run of N trials the mapping's keys are exactly
\* 0..N-1, one per trial identity issued, and the counter is N; the counter
\* grows by exactly one per trial, and no entry is ever overwritten.
C2_Bookkeeping ==
    [][ /\ pc' \in {"done", "retrained"} =>
             /\ DOMAIN early_stop_dict' = 0..(max_evals' - 1)
             /\ {trials'[k].tid : k \in 1..Len(trials')} = 0..(max_evals' - 1)
             /\ Len(trials') = max_evals'
             /\ objective_i' = max_evals'
        /\ Len(trials') # Len(trials) => objective_i' = objective_i + 1
        /\ Len(trials') = Len(trials) => objective_i' = objective_i
        /\ \A k \in DOMAIN early_stop_dict :
             k \in DOMAIN early_stop_dict' /\ early_stop_dict'[k] = early_stop_dict[k]
      ]_vars

C2_Witness ==
    /\ pc = "done"
    /\ max_evals = 2
    /\ DOMAIN early_stop_dict = {0, 1}
    /\ early_stop_dict[0] # early_stop_dict[1]
    /\ objective_i = 2

\* C3: the recorded round count is at most the requested budget (after
\* int()), equals it when the mean F1 strictly improves on every round of the
\* budget, and equals it only in runs where early stopping did not trigger.
C3_RealizedAtMostRequested ==
    TrialDone =>
      /\ Recorded <= Requested
      /\ StrictlyImproving(proposal[1].traj, Requested) => Recorded = Requested
      /\ Recorded = Requested => cv_run[1].stopped # "early"

C3_Witness ==
    /\ TrialDone
    /\ Requested = 3
    /\ proposal[1].vals.num_boost_round.tenths # 10 * Requested
    /\ StrictlyImproving(proposal[1].traj, Requested)
    /\ Recorded = 3

\* C4: a trial that completed a round returns minus the best fold-averaged
\* F1 of its rounds, rounded to 4 digits: the last element of the returned
\* history is the best round's value, and a trial with a higher best mean F1
\* never returns a larger value than one with a lower best mean F1.
C4_ReturnsNegatedBestF1 ==
    /\ TrialDone =>
         /\ cv_run[1].last = BestMeanF1(proposal[1].traj, cv_run[1].completed)
         /\ cv_run[1].ret =
              0 - Round4(BestMeanF1(proposal[1].traj, cv_run[1].completed))
         /\ LastTrial.loss = cv_run[1].ret
    /\ \A a, b \in 1..Len(trials) :
         trials[a].best_f1 > trials[b].best_f1 => trials[a].loss <= trials[b].loss

C4_Witness ==
    /\ TrialDone
    /\ Len(trials) = 2
    /\ trials[1].best_f1 < trials[2].best_f1
    /\ trials[2].loss < trials[1].loss
    /\ proposal[1].traj[cv_run[1].completed]
         < BestMeanF1(proposal[1].traj, cv_run[1].completed)

\* C5: at every invocation of the boosting engine (lgb.cv in a trial,
\* lgb.train on the best configuration) num_leaves and num_boost_round of the
\* configuration handed over are integers.
C5_EngineGetsIntegers ==
    engine_call # <<>> =>
      /\ engine_call[1].params.num_leaves.kind = "int"
      /\ engine_call[1].params.num_boost_round.kind = "int"
      /\ engine_call[1].num_boost_round.kind = "int"

C5_Witness ==
    /\ pc = "retrained"
    /\ engine_call[1].fn = "train"
    /\ BestTrial(trials).vals.num_leaves = Float(355)
    /\ engine_call[1].params.num_leaves = IntObj(35)

\* C7: a trial whose cross-validated run completes no round still returns a
\* score: no fault leaves the trial runner, the counter is incremented, a
\* round count is recorded for the trial and the search goes on.
C7_ZeroRoundsStillReturns ==
    (cv_run # <<>> /\ cv_run[1].completed = 0) =>
      /\ ~cv_run[1].raised
      /\ pc # "failed"
      /\ objective_i = proposal[1].tid + 1
      /\ proposal[1].tid \in DOMAIN early_stop_dict

\* C9 as stated: the recorded round count is the number of rounds the
\* cross-validated run completed before it stopped.
C9_RecordedIsCompleted ==
    TrialDone => Recorded = cv_run[1].completed

\* C9 as amended: the recorded round count is the best iteration, the first
\* round that attained the best mean F1 among the completed rounds; it is at
\* most the number of completed rounds, and when early stopping triggered it
\* is that number minus the patience window.
C9_RecordedIsBestIteration ==
    TrialDone =>
      /\ Recorded = FirstBestRound(proposal[1].traj, cv_run[1].completed)
      /\ Recorded <= cv_run[1].completed
      /\ cv_run[1].stopped = "early" =>
           Recorded = cv_run[1].completed - early_stopping_rounds

C9_Witness ==
    /\ TrialDone
    /\ cv_run[1].stopped = "early"
    /\ cv_run[1].completed < Requested
    /\ Recorded = cv_run[1].completed - early_stopping_rounds

-----------------------------------------------------------------------------
(* The evaluation metric, lgb_focal_f1_score(preds, lgbDataset) *)

\* 1. in the fixed-point arithmetic standing for the floats of the metric
One == 1000

\* a / b rounded to the nearest unit (b > 0), as a float division rounds
DivNearest(a, b) == (2 * a + b) \div (2 * b)

\* np.exp(x): the exponential series summed in the arithmetic's precision
RECURSIVE ExpSeries(_, _, _)
ExpSeries(x, term, n) ==
    IF term = 0 \/ n > 40 THEN 0
    ELSE term + ExpSeries(x, DivNearest(term * x, n * One), n + 1)

np_exp(x) == ExpSeries(x, One, 1)

\* def sigmoid(x): return 1./(1. + np.exp(-x))
sigmoid(x) == DivNearest(One * One, One + np_exp(0 - x))

\* int(p > 0.5)
BinaryPredAtLeastHalf(p) == IF 2 * p >= One THEN 1 ELSE 0

BinaryPred(p) == IF 2 * p > One THEN 1 ELSE 0

Count(S) == Cardinality(S)

\* sklearn.metrics.f1_score(y_true, y_pred) for the positive class:
\* 2PR/(P+R) = 2tp/(2tp+fp+fn), and 0.0 where that is 0/0
f1_score(y_true, y_pred) ==
    LET idx == 1..Len(y_true)
        tp == Count({k \in idx : y_true[k] = 1 /\ y_pred[k] = 1})
        fp == Count({k \in idx : y_true[k] # 1 /\ y_pred[k] = 1})
        fn == Count({k \in idx : y_true[k] = 1 /\ y_pred[k] # 1})
    IN  IF 2 * tp + fp + fn = 0 THEN 0
        ELSE DivNearest(2 * tp * One, 2 * tp + fp + fn)

lgb_focal_f1_score(preds, y_true) ==
    LET probs == [k \in 1..Len(preds) |-> sigmoid(preds[k])]
        binary_preds == [k \in 1..Len(preds) |-> BinaryPred(probs[k])]
    IN  [name |-> "f1", value |-> f1_score(y_true, binary_preds),
         is_higher_better |-> TRUE, binary_preds |-> binary_preds]

\* raw scores (units of 1/One) and labels of the batches tried
Scores == {0 - 2000, 0 - 1, 0, 1, 2, 2000}

Batches(labels) ==
    UNION {[1..l -> Scores \X labels] : l \in 1..MaxBatch}

Idle ==
    /\ pc = "idle"
    /\ max_evals = 0
    /\ objective_i = 0
    /\ early_stop_dict = EmptyDict
    /\ trials = <<>>
    /\ proposal = <<>>
    /\ cv_run = <<>>
    /\ best = <<>>
    /\ engine_call = <<>>

InitMetric ==
    /\ Idle
    /\ \E b \in Batches({0, 1}) :
         fn_in = <<[preds |-> [k \in 1..Len(b) |-> b[k][1]],
                    y_true |-> [k \in 1..Len(b) |-> b[k][2]]]>>
    /\ fn_out = <<>>

CallMetric ==
    /\ fn_in # <<>>
    /\ fn_out = <<>>
    /\ fn_out' = <<lgb_focal_f1_score(fn_in[1].preds, fn_in[1].y_true)>>
    /\ UNCHANGED <<searchVars, fn_in>>

SpecMetric == InitMetric /\ [][CallMetric]_vars

AllCorrect == \A k \in 1..Len(fn_in[1].preds) :
                  fn_out[1].binary_preds[k] = fn_in[1].y_true[k]

AllWrong == \A k \in 1..Len(fn_in[1].preds) :
                fn_out[1].binary_preds[k] # fn_in[1].y_true[k]

\* C6 as stated: a sample is predicted 1 exactly when its score is > 0, the
\* triple is ('f1', value, True), the value is exactly 1.0 for every
\* all-correct batch and exactly 0.0 for every all-wrong batch.
C6_MetricAsStated ==
    fn_out # <<>> =>
      /\ \A k \in 1..Len(fn_in[1].preds) :
           fn_out[1].binary_preds[k] = 1 <=> fn_in[1].preds[k] > 0
      /\ fn_out[1].name = "f1" /\ fn_out[1].is_higher_better
      /\ AllCorrect => fn_out[1].value = One
      /\ AllWrong => fn_out[1].value = 0

\* C6 as amended: a sample is predicted 1 exactly when the computed sigmoid
\* of its score is > 0.5, which no score <= 0 is; the triple is ('f1', value,
\* True); the value is exactly 1.0 for every all-correct batch that holds a
\* positive label and exactly 0.0 for every all-wrong batch.
C6_MetricAmended ==
    fn_out # <<>> =>
      /\ \A k \in 1..Len(fn_in[1].preds) :
           /\ fn_out[1].binary_preds[k] \in {0, 1}
           /\ fn_out[1].binary_preds[k] = 1 <=> 2 * sigmoid(fn_in[1].preds[k]) > One
           /\ fn_in[1].preds[k] <= 0 => fn_out[1].binary_preds[k] = 0
      /\ fn_out[1].name = "f1" /\ fn_out[1].is_higher_better
      /\ (AllCorrect /\ \E k \in 1..Len(fn_in[1].y_true) : fn_in[1].y_true[k] = 1)
           => fn_out[1].value = One
      /\ AllWrong => fn_out[1].value = 0

C6_Witness ==
    /\ fn_out # <<>>
    /\ Len(fn_in[1].preds) = 2
    /\ fn_in[1].preds[1] = 0 /\ fn_in[1].y_true[1] = 0
    /\ fn_in[1].y_true[2] = 1
    /\ AllCorrect
    /\ fn_out[1].value = One

-----------------------------------------------------------------------------
(* The focal loss objective, focal_loss_lgb(y_pred, dtrain, alpha, gamma) *)

\* scipy.misc.derivative(partial_fl, y_pred, n=n, dx=1e-6): per sample, the
\* n-th central difference of fl(x, t) in x, the label t and the shared a, g
\* held fixed.  The value is kept as the term it is a difference of.
derivative(y_pred, y_true, a, g, n) ==
    [k \in 1..Len(y_pred) |->
        [order |-> n, x |-> y_pred[k], t |-> y_true[k], a |-> a, g |-> g]]

\* lines 46-54: no statement of the function looks at the labels' values
focal_loss_lgb(y_pred, y_true, alpha, gamma) ==
    [raised |-> FALSE,
     grad |-> derivative(y_pred, y_true, alpha, gamma, 1),
     hess |-> derivative(y_pred, y_true, alpha, gamma, 2)]

\* alpha (tenths) and gamma of the calls tried
Alphas == {1, 5}

Gammas == {0, 2}

InitFocal ==
    /\ Idle
    /\ \E b \in Batches({0, 1, 2}), a \in Alphas, g \in Gammas :
         fn_in = <<[y_pred |-> [k \in 1..Len(b) |-> b[k][1]],
                    y_true |-> [k \in 1..Len(b) |-> b[k][2]],
                    alpha |-> a, gamma |-> g]>>
    /\ fn_out = <<>>

CallFocalLoss ==
    /\ fn_in # <<>>
    /\ fn_out = <<>>
    /\ fn_out' = <<focal_loss_lgb(fn_in[1].y_pred, fn_in[1].y_true,
                                  fn_in[1].alpha, fn_in[1].gamma)>>
    /\ UNCHANGED <<searchVars, fn_in>>

SpecFocal == InitFocal /\ [][CallFocalLoss]_vars

\* C8: called with a batch in which a label is outside {0,1}, the focal loss
\* objective fails before any derivative is computed: it returns no gradient
\* and no Hessian for such a batch.
C8_InvalidLabelFailsFast ==
    (fn_out # <<>> /\ \E k \in 1..Len(fn_in[1].y_true) : fn_in[1].y_true[k] \notin {0, 1})
      => /\ fn_out[1].raised
         /\ fn_out[1].grad = <<>>
         /\ fn_out[1].hess = <<>>

=============================================================================
